---- MODULE Spec2Model ----
(***************************************************************************)
(* Model of lib/connect-session-sequelize.js: an express-session store     *)
(* that keeps encrypted session rows in a Sequelize table and reaps the    *)
(* expired ones on an interval timer.                                      *)
(*                                                                         *)
(* One module instance (defaultOptions, secretKey), the store instances    *)
(* built from it, the node timers they own, the session table they share,  *)
(* and a few callers whose get/set/touch/destroy/length/clear calls        *)
(* interleave at the database round trips.                                 *)
(***************************************************************************)
EXTENDS Integers, FiniteSets, Sequences, TLC

\* ------------------------------------------------------------ bounds
MaxTime == 1        \* the clock runs over 0..MaxTime
MaxCalls == 2       \* store calls issued in one behaviour of a running store
MaxSetupCalls == 1  \* store calls issued in one behaviour that also constructs the stores
MaxTimers == 3      \* node timer handles available

\* ------------------------------------------------------------ values
Stores == {"A", "B"}
Procs == {"p1", "p2"}
Sids == {"abc", "xyz"}
TimerIds == 1..MaxTimers
Times == 0..MaxTime

Null == "null"          \* JavaScript null / undefined
NoKey == "undefined"    \* process.env.SESSION_SECRET when the variable is not set
NoCol == "nocol"        \* the extra column of a row written without extendDefaultFields
NoTimer == 0            \* this.expirationInterval when undefined or null (falsy)

\* the module-level defaults, lines 12-16
DefaultCheckExpirationInterval == 900000
DefaultExpiration == 86400000

OptionKeys == {"checkExpirationInterval", "expiration", "disableTouch", "extendDefaultFields"}

InitialDefaultOptions ==
    [ checkExpirationInterval |-> DefaultCheckExpirationInterval,
      expiration |-> DefaultExpiration,
      disableTouch |-> FALSE,
      extendDefaultFields |-> FALSE ]

\* An options object as a caller passes it: whether it carries db, which of
\* the recognised options it has as own properties (has), and their values.
Opt(db, has, cei, ex, dt, ext) ==
    [ db |-> db, has |-> has,
      val |-> [ checkExpirationInterval |-> cei, expiration |-> ex,
                disableTouch |-> dt, extendDefaultFields |-> ext ] ]

OptionObjects ==
    { Opt(TRUE, {}, 0, 0, FALSE, FALSE),
      Opt(TRUE, {"disableTouch", "checkExpirationInterval"}, 0, 0, TRUE, FALSE),
      Opt(TRUE, {"checkExpirationInterval", "disableTouch", "expiration",
                 "extendDefaultFields"}, 5, 1, FALSE, TRUE),
      Opt(FALSE, {}, 0, 0, FALSE, FALSE) }

NoOptions == Opt(FALSE, {}, 0, 0, FALSE, FALSE)

\* ------------------------------------------------------------ payloads and codec
NoExpires == [kind |-> "none", t |-> 0]

\* Session payloads: a user field and a cookie whose expires is missing, a
\* Date object (what express-session hands over) or an ISO string.
Payload(u, e) == [user |-> u, cookie |-> [expires |-> e]]

Payloads ==
    { Payload("bob", NoExpires),
      Payload("eve", [kind |-> "Date", t |-> 0]),
      Payload("bob", [kind |-> "string", t |-> 0]) }

\* A payload JSON can carry as it is: a Date is not a JSON value.
JSONCompatible(P) == P.cookie.expires.kind # "Date"

\* JSON.stringify: the text of the payload; a Date is written as its ISO string.
JSONstringify(P) ==
    IF P.cookie.expires.kind = "none"
    THEN << "user", P.user >>
    ELSE << "user", P.user, "cookie.expires", P.cookie.expires.t >>

\* JSON.parse: the value a text denotes; a date comes back as a string.
JSONparse(text) ==
    Payload(text[2],
            IF Len(text) = 2 THEN NoExpires ELSE [kind |-> "string", t |-> text[4]])

\* CryptoJS.AES.encrypt(text, passphrase).toString(): the ciphertext names the
\* plaintext, the passphrase and the random salt it was made with.
AESencrypt(text, key, salt) == [text |-> text, key |-> key, salt |-> salt]

\* JSON.parse accepts the text (it throws a SyntaxError otherwise)
JSONvalid(text) ==
    /\ Len(text) \in {2, 4}
    /\ text[1] = "user"
    /\ Len(text) = 4 => text[3] = "cookie.expires"

\* The bytes another passphrase makes of a ciphertext. The cipher carries no
\* integrity check: they are garbage fixed by the ciphertext, which as UTF-8
\* is malformed (toString throws), or empty, or, rarely, a text JSON accepts.
Garbage(c) ==
    IF c.salt % 3 = 1 THEN [ok |-> FALSE, text |-> << >>]
    ELSE IF c.salt % 3 = 2 THEN [ok |-> TRUE, text |-> << >>]
    ELSE [ok |-> TRUE, text |-> << "user", "?" >>]

\* CryptoJS.AES.decrypt(ciphertext, passphrase).toString(Utf8): the plaintext
\* under the right passphrase, garbage under another.
AESdecrypt(c, key) ==
    IF c.key = key THEN [ok |-> TRUE, text |-> c.text] ELSE Garbage(c)

\* expiration(data), lines 193-198
expiration(data, options, clock) ==
    IF data.cookie.expires.kind # "none"
    THEN data.cookie.expires
    ELSE [kind |-> "Date", t |-> clock + options.expiration]

\* Object.assign(target, source): every own property of source overwrites target's.
ObjectAssign(target, source) ==
    [k \in OptionKeys |-> IF k \in source.has THEN source.val[k] ELSE target[k]]

\* ------------------------------------------------------------ state
VARIABLES
    secretKey,        \* module constant read from the environment at load
    defaultOptions,   \* the module-level defaultOptions object
    stores,           \* the store instances: construction status, options passed, timer handle
    timers,           \* the active node interval timers
    table,            \* the rows of the session table
    now,              \* the clock
    calls,            \* per caller: the call in progress
    budget,           \* number of store calls that may still be issued
    last,             \* the call or sweep that completed last, and its outcome
    settled           \* history: per sid, the payload of an undisturbed completed set

vars == << secretKey, defaultOptions, stores, timers, table, now, calls, budget,
           last, settled >>

\* ------------------------------------------------------------ records
NoCipher == AESencrypt(<< >>, "", 0)
NoPayload == Payload("", NoExpires)
NoDefaults == [data |-> NoCipher, expires |-> NoExpires, hasUserId |-> FALSE, userId |-> NoCol]
NoWrite == [fields |-> {}, data |-> NoCipher, expires |-> 0, userId |-> NoCol]
NoSettled == [has |-> FALSE, payload |-> NoPayload]

\* What a call handed to its caller: "ok" for a fulfilled promise, "error" for
\* a rejected one, "threw" for a synchronous throw; found, payload and n carry
\* the value (a row or not, the decoded payload, a count).
Result(kind, err, found, payload, n) ==
    [kind |-> kind, err |-> err, found |-> found, payload |-> payload, n |-> n]
NoResult == Result("none", "", FALSE, NoPayload, 0)
Ok == Result("ok", "", FALSE, NoPayload, 0)
Rejected(err) == Result("error", err, FALSE, NoPayload, 0)

\* A call in progress: its arguments, the values it carries from one database
\* operation to the next, and (history) whether a write or delete of another
\* caller or of a sweep hit its sid meanwhile (disturbed), a touch of
\* another caller did (retimed), or a destroy of another caller deleted its
\* row (destroyed).
IdleCall ==
    [ pc |-> "idle", op |-> "", store |-> "A", sid |-> "abc", data |-> NoPayload,
      defaults |-> NoDefaults, write |-> NoWrite, at |-> 0, disturbed |-> FALSE,
      retimed |-> FALSE, destroyed |-> FALSE ]

\* cb counts the invocations of the caller's callback.
Outcome(op, s, result, cb) == [op |-> op, store |-> s, result |-> result, cb |-> cb]
NoOutcome == Outcome("", "A", NoResult, 0)

NewStore == [status |-> "none", options |-> NoOptions, expirationInterval |-> NoTimer]

Row(sid, data, expires, userId) ==
    [sid |-> sid, data |-> data, expires |-> expires, userId |-> userId]

RowsOf(tbl, sid) == {r \in tbl : r.sid = sid}
SidsOf(rows) == {r.sid : r \in rows}

\* this.options of a constructed store: line 45 makes it the defaultOptions
\* object itself (Object.assign returns its target).
OptionsOf(s) == defaultOptions

Constructed(s) == stores[s].status = "constructed"

\* ------------------------------------------------------------ sweeper lifecycle
\* setInterval hands out a new timer object: distinct from every active
\* one and from the one the handle h held a moment ago.
FreeTimerIds(tm, h) == {i \in TimerIds : i # h /\ \A t \in tm : t.id # i}
NewTimerId(tm, h) == CHOOSE i \in FreeTimerIds(tm, h) : \A j \in FreeTimerIds(tm, h) : i <= j

\* stopExpiringSessions(), lines 185-191, on handle h and the active timers tm
StopTimer(h, tm) ==
    IF h # NoTimer
    THEN [h |-> NoTimer, tm |-> {t \in tm : t.id # h}]
    ELSE [h |-> h, tm |-> tm]

\* startExpiringSessions() without its first line: the old timer keeps running
StartTimerNoStop(s, h, tm, options) ==
    IF options.checkExpirationInterval > 0
    THEN LET id == NewTimerId(tm, h) IN
         [h |-> id, tm |-> tm \cup {[id |-> id, store |-> s]}]
    ELSE [h |-> h, tm |-> tm]

\* startExpiringSessions(), lines 172-183, of store s
StartTimer(s, h, tm, options) ==
    LET stopped == StopTimer(h, tm) IN
    IF options.checkExpirationInterval > 0
    THEN LET id == NewTimerId(stopped.tm, h) IN
         [h |-> id, tm |-> stopped.tm \cup {[id |-> id, store |-> s]}]
    ELSE stopped

\* the constructor with the sweeper started ahead of the check for options.db
ConstructStartsFirst(s, options, defaults, tm) ==
    LET assigned == ObjectAssign(defaults, options)
        started == StartTimer(s, NoTimer, tm, assigned)
    IN IF ~options.db
       THEN [ store |-> [status |-> "threw", options |-> options,
                         expirationInterval |-> NoTimer],
              defaults |-> assigned, tm |-> started.tm ]
       ELSE [ store |-> [status |-> "constructed", options |-> options,
                         expirationInterval |-> started.h],
              defaults |-> assigned, tm |-> started.tm ]

\* The fields of the instance and the module that new SequelizeStore(options)
\* leaves behind, lines 34-60: a throw at line 42 leaves nothing assigned.
Construct(s, options, defaults, tm) ==
    IF ~options.db
    THEN [ store |-> [status |-> "threw", options |-> options,
                      expirationInterval |-> NoTimer],
           defaults |-> defaults, tm |-> tm ]
    ELSE LET assigned == ObjectAssign(defaults, options)
             started == StartTimer(s, NoTimer, tm, assigned)
         IN [ store |-> [status |-> "constructed", options |-> options,
                         expirationInterval |-> started.h],
              defaults |-> assigned, tm |-> started.tm ]

\* options.extendDefaultFields(defaults, data): one extra column taken from the payload
extendDefaultFields(defaults, data) ==
    [defaults EXCEPT !.hasUserId = TRUE, !.userId = data.user]

\* lines 87-97: the defaults set hands to findCreateFind
SetDefaults(data, options, clock, salt) ==
    LET base == [ data |-> AESencrypt(JSONstringify(data), secretKey, salt),
                  expires |-> expiration(data, options, clock),
                  hasUserId |-> FALSE, userId |-> NoCol ]
    IN IF options.extendDefaultFields THEN extendDefaultFields(base, data) ELSE base

\* ------------------------------------------------------------ initial states
\* the module just loaded, no store constructed yet; the table is empty or
\* holds a row an earlier process left
Init ==
    /\ secretKey \in {NoKey, "s3cret"}
    /\ defaultOptions = InitialDefaultOptions
    /\ stores = [s \in Stores |-> NewStore]
    /\ timers = {}
    /\ \/ table = {}
       \/ \E e \in Times :
             table = {Row("abc", AESencrypt(JSONstringify(Payload("bob", NoExpires)),
                                            "0ther", 1), e, NoCol)}
    /\ now = 0
    /\ calls = [p \in Procs |-> IdleCall]
    /\ budget = MaxSetupCalls
    /\ last = NoOutcome
    /\ settled = [x \in Sids |-> NoSettled]

\* Store A constructed from some options object and serving calls; the
\* table is empty, or holds the row an earlier set("xyz", P) at time 0 left.
InitServing ==
    /\ secretKey \in {NoKey, "s3cret"}
    /\ \E o \in {o \in OptionObjects : o.db} :
          LET made == Construct("A", o, InitialDefaultOptions, {}) IN
          /\ defaultOptions = made.defaults
          /\ stores = [s \in Stores |-> IF s = "A" THEN made.store ELSE NewStore]
          /\ timers = made.tm
          /\ \/ /\ table = {}
                /\ settled = [x \in Sids |-> NoSettled]
             \/ /\ secretKey # NoKey
                /\ \E P \in Payloads :
                      LET d == SetDefaults(P, made.defaults, 0, 1) IN
                      /\ table = {Row("xyz", d.data, d.expires.t, d.userId)}
                      /\ settled = [x \in Sids |-> IF x = "xyz"
                                                    THEN [has |-> TRUE, payload |-> P]
                                                    ELSE NoSettled]
    /\ now = 0
    /\ calls = [p \in Procs |-> IdleCall]
    /\ budget = MaxCalls
    /\ last = NoOutcome

\* The data column of a row the store finds in its table: written by a set
\* of this process, written under another secret, or holding something that
\* is no session (a text that is not JSON, no text at all).
StoredBlobs ==
    {AESencrypt(JSONstringify(Payload("bob", NoExpires)), "0ther", n) : n \in 1..3}
    \cup (IF secretKey = NoKey THEN {}
          ELSE { AESencrypt(JSONstringify(Payload("eve", NoExpires)), secretKey, 1),
                 AESencrypt(<< "<html>" >>, secretKey, 1),
                 AESencrypt(<< >>, secretKey, 1) })

\* Store A constructed over a table that already holds a row for "abc"
InitStored ==
    /\ secretKey \in {NoKey, "s3cret"}
    /\ \E o \in {o \in OptionObjects : o.db} :
          LET made == Construct("A", o, InitialDefaultOptions, {}) IN
          /\ defaultOptions = made.defaults
          /\ stores = [s \in Stores |-> IF s = "A" THEN made.store ELSE NewStore]
          /\ timers = made.tm
    /\ \E b \in StoredBlobs, e \in Times : table = {Row("abc", b, e, NoCol)}
    /\ settled = [x \in Sids |-> NoSettled]
    /\ now = 0
    /\ calls = [p \in Procs |-> IdleCall]
    /\ budget = MaxCalls
    /\ last = NoOutcome

\* ------------------------------------------------------------ store lifecycle
constructor(s, options) ==
    /\ stores[s].status = "none"
    /\ LET made == Construct(s, options, defaultOptions, timers) IN
       /\ stores' = [stores EXCEPT ![s] = made.store]
       /\ defaultOptions' = made.defaults
       /\ timers' = made.tm
    /\ UNCHANGED << secretKey, table, now, calls, budget, last, settled >>

startExpiringSessions(s) ==
    /\ Constructed(s)
    /\ LET started == StartTimer(s, stores[s].expirationInterval, timers, OptionsOf(s)) IN
       /\ stores' = [stores EXCEPT ![s].expirationInterval = started.h]
       /\ timers' = started.tm
    /\ UNCHANGED << secretKey, defaultOptions, table, now, calls, budget, last,
                    settled >>

stopExpiringSessions(s) ==
    /\ Constructed(s)
    /\ LET stopped == StopTimer(stores[s].expirationInterval, timers) IN
       /\ stores' = [stores EXCEPT ![s].expirationInterval = stopped.h]
       /\ timers' = stopped.tm
    /\ UNCHANGED << secretKey, defaultOptions, table, now, calls, budget, last,
                    settled >>

Tick ==
    /\ now < MaxTime
    /\ now' = now + 1
    /\ UNCHANGED << secretKey, defaultOptions, stores, timers, table, calls, budget,
                    last, settled >>

\* ------------------------------------------------------------ the session table
\* INSERT of a row: the table's primary key on sid refuses a second row.
Insert(tbl, row) ==
    IF RowsOf(tbl, row.sid) = {}
    THEN [ok |-> TRUE, tbl |-> tbl \cup {row}]
    ELSE [ok |-> FALSE, tbl |-> tbl]

\* UPDATE ... SET fields WHERE sid = sid
Update(tbl, sid, w) ==
    { IF r.sid # sid THEN r
      ELSE Row(r.sid,
               IF "data" \in w.fields THEN w.data ELSE r.data,
               IF "expires" \in w.fields THEN w.expires ELSE r.expires,
               IF "userId" \in w.fields THEN w.userId ELSE r.userId) : r \in tbl }

\* DELETE ... WHERE sid = sid
Delete(tbl, sid) == {r \in tbl : r.sid # sid}

\* the sweep's DELETE with <= in place of <
DeleteExpiredLte(tbl, at) == {r \in tbl : ~(r.expires <= at)}

\* the sweep's DELETE with the comparison turned around
DeleteExpiredGt(tbl, at) == {r \in tbl : ~(r.expires > at)}

\* DELETE ... WHERE expires < at, line 168
DeleteExpired(tbl, at) == {r \in tbl : ~(r.expires < at)}

\* ------------------------------------------------------------ history
InSet(q, x) == calls[q].op = "set" /\ calls[q].pc # "idle" /\ calls[q].sid = x

\* A write or delete by p on the rows of the sids X overlaps every other
\* caller's set in progress on them, and ends what an earlier set settled.
Others(p, X) ==
    [q \in Procs |-> IF q # p /\ \E x \in X : InSet(q, x)
                     THEN [calls[q] EXCEPT !.disturbed = TRUE]
                     ELSE calls[q]]
\* a touch of p on sid x overlaps every other caller's set in progress on it
Retimed(cs, p, x) ==
    [q \in Procs |-> IF q # p /\ InSet(q, x)
                     THEN [cs[q] EXCEPT !.retimed = TRUE]
                     ELSE cs[q]]
\* a destroy of p on sid x overlaps every other caller's set in progress on it
Destroyed(cs, p, x) ==
    [q \in Procs |-> IF q # p /\ InSet(q, x)
                     THEN [cs[q] EXCEPT !.destroyed = TRUE]
                     ELSE cs[q]]
Unsettle(X) == [x \in Sids |-> IF x \in X THEN NoSettled ELSE settled[x]]
Settle(p, x, P) ==
    [settled EXCEPT ![x] = IF calls[p].disturbed THEN NoSettled
                           ELSE [has |-> TRUE, payload |-> P]]

\* ------------------------------------------------------------ calls
\* Callers are interchangeable slots for the calls in progress: a new call
\* takes the first free one.
CanCall(p, s) ==
    /\ Constructed(s)
    /\ calls[p].pc = "idle"
    /\ \A q \in Procs : calls[q].pc = "idle" => ~(p = "p2" /\ q = "p1")
    /\ budget > 0

Begin(pc, op, s, sid, data) ==
    [IdleCall EXCEPT !.pc = pc, !.op = op, !.store = s, !.sid = sid, !.data = data]

\* the call of p issued: it awaits its first database reply
Issue(p, c) ==
    /\ budget' = budget - 1
    /\ calls' = [calls EXCEPT ![p] = c]
    /\ UNCHANGED << secretKey, defaultOptions, stores, timers, table, now, last, settled >>

\* asCallback(fn): the promise of p's call settles and fn is invoked with its
\* outcome; X are the sids whose rows the step wrote or deleted.
Complete(p, result, X) ==
    /\ calls' = [Others(p, X) EXCEPT ![p] = IdleCall]
    /\ last' = Outcome(calls[p].op, calls[p].store, result, 1)

\* the call of p moves on to its next database operation
Goto(p, c, X) ==
    /\ calls' = [Others(p, X) EXCEPT ![p] = c]
    /\ UNCHANGED last

\* ---- get, lines 67-82
get(p, s, sid) ==
    /\ CanCall(p, s)
    /\ Issue(p, Begin("get_findOne", "get", s, sid, NoPayload))

\* the then-callback of get with the decoding wrapped in a try/catch that
\* answers null
getThenSwallows(found, session) ==
    IF ~found THEN Ok
    ELSE IF secretKey = NoKey THEN Ok
    ELSE LET bytes == AESdecrypt(session.data, secretKey) IN
         IF ~bytes.ok \/ ~JSONvalid(bytes.text) THEN Ok
         ELSE Result("ok", "", TRUE, JSONparse(bytes.text), 0)

\* the then-callback of get, lines 71-80, on the row findOne returned: what
\* it throws rejects the promise
getThen(found, session) ==
    IF ~found THEN Ok
    ELSE IF secretKey = NoKey THEN Rejected("TypeError")
    ELSE LET bytes == AESdecrypt(session.data, secretKey) IN
         IF ~bytes.ok THEN Rejected("Malformed UTF-8 data")
         ELSE IF ~JSONvalid(bytes.text) THEN Rejected("SyntaxError")
         ELSE Result("ok", "", TRUE, JSONparse(bytes.text), 0)

\* a findOne that looks only at the rows not yet expired
getFindOneLive(p) ==
    /\ calls[p].pc = "get_findOne"
    /\ LET live == {r \in RowsOf(table, calls[p].sid) : ~(r.expires < now)} IN
       \/ Complete(p, Rejected("StorageError"), {})
       \/ /\ live = {}
          /\ Complete(p, getThen(FALSE, Row("", NoCipher, 0, NoCol)), {})
       \/ \E r \in live : Complete(p, getThen(TRUE, r), {})
    /\ UNCHANGED << secretKey, defaultOptions, stores, timers, table, now, budget,
                    settled >>

getFindOne(p) ==
    /\ calls[p].pc = "get_findOne"
    /\ \/ Complete(p, Rejected("StorageError"), {})
       \/ /\ RowsOf(table, calls[p].sid) = {}
          /\ Complete(p, getThen(FALSE, Row("", NoCipher, 0, NoCol)), {})
       \/ \E r \in RowsOf(table, calls[p].sid) : Complete(p, getThen(TRUE, r), {})
    /\ UNCHANGED << secretKey, defaultOptions, stores, timers, table, now, budget,
                    settled >>

\* ---- set, lines 85-129
\* The salt CryptoJS draws at random for a ciphertext differs from that of
\* every ciphertext still around.
UsedSalts ==
    {r.data.salt : r \in table}
    \cup {calls[q].defaults.data.salt : q \in Procs}
    \cup {calls[q].write.data.salt : q \in Procs}
NewSalt == CHOOSE n \in 1..(Cardinality(UsedSalts) + 1) : n \notin UsedSalts

set(p, s, sid, data) ==
    /\ CanCall(p, s)
    /\ IF secretKey = NoKey
       THEN \* CryptoJS.AES.encrypt throws on an undefined key, before any promise exists
            /\ budget' = budget - 1
            /\ last' = Outcome("set", s, Result("threw", "TypeError", FALSE, NoPayload, 0), 0)
            /\ UNCHANGED << secretKey, defaultOptions, stores, timers, table, now, calls,
                            settled >>
       ELSE Issue(p, [Begin("set_findOne", "set", s, sid, data) EXCEPT
                         !.at = now,
                         !.defaults = SetDefaults(data, OptionsOf(s), now, NewSalt)])

\* the spread callback without lines 118-121: the new ciphertext is never assigned
SpreadKeepsData(d, session, fresh) ==
    LET changedExpires == ~(fresh /\ d.expires.kind = "Date")
        changedUserId == d.hasUserId /\ session.userId # d.userId
        fields == (IF changedUserId THEN {"userId"} ELSE {})
                  \cup (IF session.expires # d.expires.t THEN {"expires"} ELSE {})
    IN [ changed |-> changedExpires \/ changedUserId,
         write |-> [fields |-> fields, data |-> d.data,
                    expires |-> d.expires.t, userId |-> d.userId] ]

\* the spread callback taking every session for changed, and a save that
\* writes every field
SpreadAlwaysSaves(d, session, fresh) ==
    [ changed |-> TRUE,
      write |-> [fields |-> {"data", "expires"} \cup (IF d.hasUserId THEN {"userId"} ELSE {}),
                 data |-> d.data, expires |-> d.expires.t, userId |-> d.userId] ]

\* the spread callback of set, lines 105-127, on the session findCreateFind
\* returned; fresh when this call created it (its values are the very
\* objects of defaults). Yields the fields save() has to write, or "unchanged".
Spread(d, session, fresh) ==
    LET changedExpires == ~(fresh /\ d.expires.kind = "Date")
        changedUserId == d.hasUserId /\ session.userId # d.userId
        changedData == session.data # d.data
        fields == (IF changedData THEN {"data"} ELSE {})
                  \cup (IF changedUserId THEN {"userId"} ELSE {})
                  \cup (IF session.expires # d.expires.t THEN {"expires"} ELSE {})
    IN [ changed |-> changedExpires \/ changedUserId \/ changedData,
         write |-> [fields |-> fields, data |-> d.data,
                    expires |-> d.expires.t, userId |-> d.userId] ]

\* p's set goes on from the session it got: to save(), or to its end
AfterSpread(p, session, fresh, X) ==
    LET sp == Spread(calls[p].defaults, session, fresh) IN
    IF sp.changed
    THEN Goto(p, [calls[p] EXCEPT !.pc = "set_save", !.write = sp.write,
                                  !.defaults = NoDefaults], X)
    ELSE Complete(p, Result("ok", "", TRUE, NoPayload, 0), X)

setFindOne(p) ==
    /\ calls[p].pc = "set_findOne"
    /\ \/ Complete(p, Rejected("StorageError"), {})
       \/ /\ RowsOf(table, calls[p].sid) = {}
          /\ Goto(p, [calls[p] EXCEPT !.pc = "set_create"], {})
       \/ \E r \in RowsOf(table, calls[p].sid) : AfterSpread(p, r, FALSE, {})
    /\ UNCHANGED << secretKey, defaultOptions, stores, timers, table, now, budget,
                    settled >>

\* the create step against a table that takes a second row for a sid
setCreateNoConflict(p) ==
    /\ calls[p].pc = "set_create"
    /\ LET c == calls[p]
           row == Row(c.sid, c.defaults.data, c.defaults.expires.t, c.defaults.userId)
       IN /\ table' = table \cup {row}
          /\ AfterSpread(p, row, TRUE, {c.sid})
          /\ settled' = Unsettle({c.sid})
    /\ UNCHANGED << secretKey, defaultOptions, stores, timers, now, budget >>

\* the create step of a plain find-then-create: the conflict rejects the set
setCreateRejectsConflict(p) ==
    /\ calls[p].pc = "set_create"
    /\ LET c == calls[p]
           row == Row(c.sid, c.defaults.data, c.defaults.expires.t, c.defaults.userId)
           ins == Insert(table, row)
       IN \/ /\ ins.ok
             /\ table' = ins.tbl
             /\ AfterSpread(p, row, TRUE, {c.sid})
             /\ settled' = IF Spread(c.defaults, row, TRUE).changed
                           THEN Unsettle({c.sid})
                           ELSE Settle(p, c.sid, c.data)
          \/ /\ ~ins.ok
             /\ Complete(p, Rejected("SequelizeUniqueConstraintError"), {})
             /\ UNCHANGED << table, settled >>
    /\ UNCHANGED << secretKey, defaultOptions, stores, timers, now, budget >>

setCreate(p) ==
    /\ calls[p].pc = "set_create"
    /\ LET c == calls[p]
           row == Row(c.sid, c.defaults.data, c.defaults.expires.t, c.defaults.userId)
           ins == Insert(table, row)
       IN \/ /\ Complete(p, Rejected("StorageError"), {})
             /\ UNCHANGED << table, settled >>
          \/ /\ ins.ok
             /\ table' = ins.tbl
             /\ AfterSpread(p, row, TRUE, {c.sid})
             /\ settled' = IF Spread(c.defaults, row, TRUE).changed
                           THEN Unsettle({c.sid})
                           ELSE Settle(p, c.sid, c.data)
          \/ /\ ~ins.ok          \* UniqueConstraintError, caught by findCreateFind
             /\ Goto(p, [c EXCEPT !.pc = "set_findAgain"], {})
             /\ UNCHANGED << table, settled >>
    /\ UNCHANGED << secretKey, defaultOptions, stores, timers, now, budget >>

setFindAgain(p) ==
    /\ calls[p].pc = "set_findAgain"
    /\ \/ Complete(p, Rejected("StorageError"), {})
       \/ /\ RowsOf(table, calls[p].sid) = {}
          \* spread reads dataValues of a null session
          /\ Complete(p, Rejected("TypeError"), {})
       \/ \E r \in RowsOf(table, calls[p].sid) : AfterSpread(p, r, FALSE, {})
    /\ UNCHANGED << secretKey, defaultOptions, stores, timers, table, now, budget,
                    settled >>

\* sessionTemp.save(), line 124: an UPDATE of the fields whose value changed,
\* none issued when no value did
setSave(p) ==
    /\ calls[p].pc = "set_save"
    /\ LET c == calls[p] IN
       \/ /\ c.write.fields # {}
          /\ Complete(p, Rejected("StorageError"), {})
          /\ UNCHANGED << table, settled >>
       \/ /\ table' = Update(table, c.sid, c.write)
          /\ Complete(p, Result("ok", "", TRUE, NoPayload, 0), {c.sid})
          /\ settled' = Settle(p, c.sid, c.data)
    /\ UNCHANGED << secretKey, defaultOptions, stores, timers, now, budget >>

\* ---- touch, lines 131-144
touch(p, s, sid, data) ==
    /\ CanCall(p, s)
    /\ IF OptionsOf(s).disableTouch
       THEN \* line 135: return fn()
            /\ budget' = budget - 1
            /\ last' = Outcome("touch", s, Ok, 1)
            /\ UNCHANGED << secretKey, defaultOptions, stores, timers, table, now, calls,
                            settled >>
       ELSE Issue(p, [Begin("touch_update", "touch", s, sid, data) EXCEPT
                         !.at = now,
                         !.write = [NoWrite EXCEPT
                                      !.fields = {"expires"},
                                      !.expires = expiration(data, OptionsOf(s), now).t]])

\* touch whose UPDATE lacks the where clause
touchUpdateNoWhere(p) ==
    /\ calls[p].pc = "touch_update"
    /\ table' = {[r EXCEPT !.expires = calls[p].write.expires] : r \in table}
    /\ Complete(p, Ok, {})
    /\ UNCHANGED << secretKey, defaultOptions, stores, timers, now, budget, settled >>

touchUpdate(p) ==
    /\ calls[p].pc = "touch_update"
    /\ LET c == calls[p] IN
       \/ /\ Complete(p, Rejected("StorageError"), {})
          /\ UNCHANGED table
       \/ /\ table' = Update(table, c.sid, c.write)
          /\ calls' = [Retimed(calls, p, c.sid) EXCEPT ![p] = IdleCall]
          /\ last' = Outcome(c.op, c.store, Ok, 1)
    /\ UNCHANGED << secretKey, defaultOptions, stores, timers, now, budget, settled >>

\* ---- destroy, lines 146-159
destroy(p, s, sid) ==
    /\ CanCall(p, s)
    /\ Issue(p, Begin("destroy_findOne", "destroy", s, sid, NoPayload))

\* destroy without the null check of lines 152-155
destroyFindOneNoNullCheck(p) ==
    /\ calls[p].pc = "destroy_findOne"
    /\ \/ /\ RowsOf(table, calls[p].sid) = {}
          /\ Complete(p, Rejected("TypeError"), {})
       \/ /\ RowsOf(table, calls[p].sid) # {}
          /\ Goto(p, [calls[p] EXCEPT !.pc = "destroy_session"], {})
    /\ UNCHANGED << secretKey, defaultOptions, stores, timers, table, now, budget,
                    settled >>

destroyFindOne(p) ==
    /\ calls[p].pc = "destroy_findOne"
    /\ \/ Complete(p, Rejected("StorageError"), {})
       \/ /\ RowsOf(table, calls[p].sid) = {}
          /\ Complete(p, Ok, {})
       \/ /\ RowsOf(table, calls[p].sid) # {}
          /\ Goto(p, [calls[p] EXCEPT !.pc = "destroy_session"], {})
    /\ UNCHANGED << secretKey, defaultOptions, stores, timers, table, now, budget,
                    settled >>

\* session.destroy(), line 156
destroySession(p) ==
    /\ calls[p].pc = "destroy_session"
    /\ LET c == calls[p] IN
       \/ /\ Complete(p, Rejected("StorageError"), {})
          /\ UNCHANGED << table, settled >>
       \/ /\ table' = Delete(table, c.sid)
          /\ calls' = [Destroyed(Others(p, {c.sid}), p, c.sid) EXCEPT ![p] = IdleCall]
          /\ last' = Outcome(c.op, c.store, Result("ok", "", TRUE, NoPayload, 0), 1)
          /\ settled' = Unsettle({c.sid})
    /\ UNCHANGED << secretKey, defaultOptions, stores, timers, now, budget >>

\* ---- length, lines 161-163
length(p, s) ==
    /\ CanCall(p, s)
    /\ Issue(p, Begin("length_count", "length", s, "abc", NoPayload))

lengthCount(p) ==
    /\ calls[p].pc = "length_count"
    /\ \/ Complete(p, Rejected("StorageError"), {})
       \/ Complete(p, Result("ok", "", FALSE, NoPayload, Cardinality(table)), {})
    /\ UNCHANGED << secretKey, defaultOptions, stores, timers, table, now, budget,
                    settled >>

\* ---- clearExpiredSessions, lines 165-170
\* called with a callback: new Date() is taken at the call, the DELETE runs later
clearExpiredSessions(p, s) ==
    /\ CanCall(p, s)
    /\ Issue(p, [Begin("clear_destroy", "clearExpiredSessions", s, "abc", NoPayload)
                    EXCEPT !.at = now])

clearDestroy(p) ==
    /\ calls[p].pc = "clear_destroy"
    /\ LET c == calls[p]
           kept == DeleteExpired(table, c.at)
       IN \/ /\ Complete(p, Rejected("StorageError"), {})
             /\ UNCHANGED << table, settled >>
          \/ /\ table' = kept
             /\ Complete(p, Ok, SidsOf(table \ kept))
             /\ settled' = Unsettle(SidsOf(table \ kept))
    /\ UNCHANGED << secretKey, defaultOptions, stores, timers, now, budget >>

\* a timer whose failed sweep cancels the interval
TimerFireCancels(t) ==
    /\ t \in timers
    /\ LET kept == DeleteExpired(table, now) IN
       \/ /\ last' = Outcome("sweep", t.store, Rejected("StorageError"), 0)
          /\ timers' = timers \ {t}
          /\ UNCHANGED << table, settled, calls >>
       \/ /\ table' = kept
          /\ last' = Outcome("sweep", t.store,
                             Result("ok", "", FALSE, NoPayload, Cardinality(table \ kept)), 0)
          /\ calls' = Others("", SidsOf(table \ kept))
          /\ settled' = Unsettle(SidsOf(table \ kept))
          /\ UNCHANGED timers
    /\ UNCHANGED << secretKey, defaultOptions, stores, now, budget >>

\* The interval timer t fires, line 177: clearExpiredSessions() without a
\* callback, and its DELETE. A rejection has no handler; the promise library
\* only reports it.
TimerFire(t) ==
    /\ t \in timers
    /\ LET kept == DeleteExpired(table, now) IN
       \/ /\ last' = Outcome("sweep", t.store, Rejected("StorageError"), 0)
          /\ UNCHANGED << table, settled, calls >>
       \/ /\ table' = kept
          /\ last' = Outcome("sweep", t.store,
                             Result("ok", "", FALSE, NoPayload, Cardinality(table \ kept)), 0)
          /\ calls' = Others("", SidsOf(table \ kept))
          /\ settled' = Unsettle(SidsOf(table \ kept))
    /\ UNCHANGED << secretKey, defaultOptions, stores, timers, now, budget >>

\* ------------------------------------------------------------ specifications
\* a running store and its callers
Next ==
    \/ \E p \in Procs, s \in Stores, x \in Sids : get(p, s, x)
    \/ \E p \in Procs : getFindOne(p)
    \/ \E p \in Procs, s \in Stores, x \in Sids, d \in Payloads : set(p, s, x, d)
    \/ \E p \in Procs : setFindOne(p)
    \/ \E p \in Procs : setCreate(p)
    \/ \E p \in Procs : setFindAgain(p)
    \/ \E p \in Procs : setSave(p)
    \/ \E p \in Procs, s \in Stores, x \in Sids, d \in Payloads : touch(p, s, x, d)
    \/ \E p \in Procs : touchUpdate(p)
    \/ \E p \in Procs, s \in Stores, x \in Sids : destroy(p, s, x)
    \/ \E p \in Procs : destroyFindOne(p)
    \/ \E p \in Procs : destroySession(p)
    \/ \E p \in Procs, s \in Stores : length(p, s)
    \/ \E p \in Procs : lengthCount(p)
    \/ \E p \in Procs, s \in Stores : clearExpiredSessions(p, s)
    \/ \E p \in Procs : clearDestroy(p)
    \/ \E t \in timers : TimerFire(t)
    \/ Tick

Spec == InitServing /\ [][Next]_vars

\* the database answers p's pending operation
Reply(p) ==
    \/ getFindOne(p)
    \/ setFindOne(p) \/ setCreate(p) \/ setFindAgain(p) \/ setSave(p)
    \/ touchUpdate(p)
    \/ destroyFindOne(p) \/ destroySession(p)
    \/ lengthCount(p)
    \/ clearDestroy(p)

\* a running store whose database answers every operation, with a result or
\* with an error
SpecLive == InitServing /\ [][Next]_vars /\ \A p \in Procs : WF_vars(Reply(p))

\* the stores of a process from module load on: construction, the sweeper's
\* start and stop, and the first calls
NextSetup ==
    \/ \E s \in Stores, o \in OptionObjects : constructor(s, o)
    \/ \E s \in Stores : startExpiringSessions(s)
    \/ \E s \in Stores : stopExpiringSessions(s)
    \/ \E p \in Procs, s \in Stores, x \in Sids, d \in Payloads : touch(p, s, x, d)
    \/ \E p \in Procs : touchUpdate(p)
    \/ \E p \in Procs, s \in Stores : clearExpiredSessions(p, s)
    \/ \E p \in Procs : clearDestroy(p)
    \/ \E t \in timers : TimerFire(t)
    \/ Tick

SpecSetup == Init /\ [][NextSetup]_vars

\* a store reading a table it did not fill itself
NextStored ==
    \/ \E p \in Procs, s \in Stores, x \in Sids : get(p, s, x)
    \/ \E p \in Procs : getFindOne(p)
    \/ \E p \in Procs, s \in Stores, x \in Sids, d \in Payloads : touch(p, s, x, d)
    \/ \E p \in Procs : touchUpdate(p)
    \/ \E p \in Procs, s \in Stores : length(p, s)
    \/ \E p \in Procs : lengthCount(p)
    \/ \E t \in timers : TimerFire(t)
    \/ Tick

SpecStored == InitStored /\ [][NextStored]_vars

\* a sweep of timer t that the database carries out
SweepDone(t) == TimerFire(t) /\ last'.result.kind = "ok"

\* the same store with its interval timers firing again and again, and a
\* database that does not fail every sweep
SpecSweep ==
    InitStored /\ [][NextStored]_vars /\ WF_vars(\E t \in timers : SweepDone(t))

\* ------------------------------------------------------------ properties
\* the store was constructed from an options object that sets disableTouch
ConfiguredDisableTouch(s) ==
    "disableTouch" \in stores[s].options.has /\ stores[s].options.val.disableTouch

\* p's call ends in this step
Completes(p) == calls[p].pc # "idle" /\ calls'[p].pc = "idle"

\* a timer-driven sweep: the only step that starts, moves or ends no call
\* and leaves the clock alone
TimerSweepStep ==
    /\ budget' = budget
    /\ now' = now
    /\ \A p \in Procs : calls'[p].pc = calls[p].pc
    /\ last'.op = "sweep"

\* C1: once set(sid, P) has completed with no write, delete or sweep of
\* another caller hitting sid since it began, a get(sid) the database answers
\* returns a payload equal to P, for every P that JSON can carry.
C1_SetThenGet ==
    [][\A p \in Procs :
          LET x == calls[p].sid IN
          ( /\ calls[p].pc = "get_findOne"
            /\ Completes(p)
            /\ settled[x].has
            /\ JSONCompatible(settled[x].payload)
            /\ last'.result.err # "StorageError" )
          => ( /\ last'.result.kind = "ok"
               /\ last'.result.found
               /\ last'.result.payload = settled[x].payload )]_vars

C1_Witness ==
    /\ last.op = "get"
    /\ last.result.found
    /\ settled["abc"].has
    /\ last.result.payload = settled["abc"].payload
    /\ RowsOf(table, "xyz") = {}

\* C2: on a sid without a row, get, destroy and touch end at their first
\* database operation without touching the table, and with no error of their
\* own: get and destroy report nothing found.
C2_AbsentIsNoError ==
    [][\A p \in Procs :
          ( /\ calls[p].pc \in {"get_findOne", "destroy_findOne", "touch_update"}
            /\ calls'[p].pc # calls[p].pc
            /\ RowsOf(table, calls[p].sid) = {} )
          => ( /\ table' = table
               /\ calls'[p].pc = "idle"
               /\ \/ last'.result.err = "StorageError"
                  \/ last'.result.kind = "ok" /\ ~last'.result.found )]_vars

C2_Witness ==
    /\ last.op = "destroy"
    /\ last.result.kind = "ok"
    /\ ~last.result.found
    /\ last.cb = 1

\* C3: the UPDATE of a touch leaves every row of another sid as it was, and
\* of the rows of its own sid everything but expires; no row comes or goes.
C3_TouchOnlyExpires ==
    [][\A p \in Procs :
          LET x == calls[p].sid IN
          (calls[p].pc = "touch_update" /\ Completes(p))
          => ( /\ {r \in table' : r.sid # x} = {r \in table : r.sid # x}
               /\ {[r EXCEPT !.expires = 0] : r \in RowsOf(table', x)}
                    = {[r EXCEPT !.expires = 0] : r \in RowsOf(table, x)}
               /\ Cardinality(table') = Cardinality(table) )]_vars

\* a touch has moved the expiry of a row away from the one its payload names
C3_Witness ==
    /\ last.op = "touch"
    /\ last.result.kind = "ok"
    /\ \E r \in table : Len(r.data.text) = 4 /\ r.expires # r.data.text[4]

\* C4: no touch on a store constructed with disableTouch = true issues a
\* database operation.
C4_DisabledTouchNoDb ==
    \A p \in Procs : calls[p].pc = "touch_update" => ~ConfiguredDisableTouch(calls[p].store)

\* C5: the table never holds two rows for one sid.
C5_OneRowPerSid == \A x \in Sids : Cardinality(RowsOf(table, x)) <= 1

\* a set lost the race for a new sid: its INSERT was refused
C5_Witness ==
    \E p \in Procs :
        calls[p].pc = "set_findAgain" /\ Cardinality(RowsOf(table, calls[p].sid)) = 1

\* C6: every store has at most one active timer, the one its handle names;
\* a store whose handle is cleared has none.
C6_OneTimer ==
    \A s \in Stores :
        LET mine == {t \in timers : t.store = s} IN
        /\ Cardinality(mine) <= 1
        /\ \A t \in mine : t.id = stores[s].expirationInterval
        /\ stores[s].expirationInterval # NoTimer => mine # {}

\* store A was restarted: it holds its second timer, and only that one
C6_Witness ==
    /\ stores["A"].expirationInterval = 2
    /\ stores["B"].status = "none"
    /\ Cardinality(timers) = 1

\* C7: a sweep the database carries out deletes the rows with expires < its
\* time and no other; one it fails to carry out changes nothing.
C7_SweepExact ==
    [][ /\ TimerSweepStep =>
            IF last'.result.kind = "ok"
            THEN /\ table' = table \ {r \in table : r.expires < now}
                 /\ last'.result.n = Cardinality({r \in table : r.expires < now})
            ELSE table' = table
        /\ \A p \in Procs :
              (calls[p].pc = "clear_destroy" /\ Completes(p)) =>
                 IF last'.result.kind = "ok"
                 THEN table' = table \ {r \in table : r.expires < calls[p].at}
                 ELSE table' = table ]_vars

\* a sweep deleted one row and kept one that expires this very moment
C7_Witness ==
    /\ last.op = "sweep"
    /\ last.result.n = 1
    /\ \E r \in table : r.expires = now

\* C8: a timer-driven sweep that fails leaves every timer and every handle
\* as they were, its own timer among them; a sweep called with a callback
\* invokes it once, with the database error if there was one.
C8_FailedSweepKeepsTimer ==
    [][ /\ (last' # last /\ last'.op = "sweep" /\ last'.result.kind = "error")
           => ( /\ timers' = timers
                /\ stores' = stores
                /\ \E t \in timers' : t.store = last'.store )
        /\ \A p \in Procs :
              (calls[p].pc = "clear_destroy" /\ Completes(p))
              => ( /\ last'.op = "clearExpiredSessions"
                   /\ last'.cb = 1
                   /\ last'.result.kind = "error" => last'.result.err = "StorageError" ) ]_vars

C8_Witness ==
    /\ last.op = "sweep"
    /\ last.result.kind = "error"
    /\ \E t \in timers : t.store = last.store

\* C9: without a secret key no store is ever constructed and no timer scheduled.
C9_NoKeyNoStore ==
    secretKey = NoKey => (timers = {} /\ \A s \in Stores : ~Constructed(s))

\* C10: a construction throws exactly when options.db is missing, and the
\* store it was building has no timer, no handle and serves no call.
C10_NoDbNoSweeper ==
    \A s \in Stores :
        /\ stores[s].status # "none" => (stores[s].status = "threw" <=> ~stores[s].options.db)
        /\ stores[s].status = "threw" =>
              /\ stores[s].expirationInterval = NoTimer
              /\ \A t \in timers : t.store # s
              /\ \A p \in Procs : calls[p].pc # "idle" => calls[p].store # s

\* one construction threw while the other store runs its sweeper
C10_Witness ==
    \E s, u \in Stores :
        /\ stores[s].status = "threw"
        /\ Constructed(u)
        /\ \E t \in timers : t.store = u

\* the decoding of lines 77-78 fails on the row: the key is missing, the
\* bytes are no UTF-8 text, or the text is no JSON
Undecodable(r) ==
    \/ secretKey = NoKey
    \/ ~AESdecrypt(r.data, secretKey).ok
    \/ ~JSONvalid(AESdecrypt(r.data, secretKey).text)

\* C11: a get that finds a row whose data does not decrypt under the store's
\* key or does not parse ends with an error handed to the caller, once, never
\* with absent or a payload, and leaves the table as it was.
C11_DecodeErrorSurfaced ==
    [][\A p \in Procs :
          ( /\ calls[p].pc = "get_findOne"
            /\ Completes(p)
            /\ \E r \in RowsOf(table, calls[p].sid) : Undecodable(r) )
          => ( /\ last'.op = "get"
               /\ last'.result.kind = "error"
               /\ last'.cb = 1
               /\ table' = table )]_vars

\* a get failed on a row written under another secret, which is still there
C11_Witness ==
    /\ last.op = "get"
    /\ last.result.kind = "error"
    /\ last.result.err \in {"Malformed UTF-8 data", "SyntaxError"}
    /\ \E r \in table : r.data.key = "0ther" /\ secretKey # NoKey

\* no call stays pending
NoCallPending == \A p \in Procs : (calls[p].pc # "idle") ~> (calls[p].pc = "idle")

\* C12: every call issued ends exactly once, through its callback, with a
\* result or a rejection, and no call stays pending.
C12_CallsCompleteOnce ==
    /\ [][ /\ budget' = budget - 1 =>
               \/ \E p \in Procs : calls[p].pc = "idle" /\ calls'[p].pc # "idle"
               \/ last'.cb = 1 /\ last'.result.kind \in {"ok", "error"}
           /\ \A p \in Procs :
                 Completes(p) => last'.cb = 1 /\ last'.result.kind \in {"ok", "error"} ]_vars
    /\ NoCallPending

\* C13: the module's default options stay as lines 12-16 set them, and a
\* constructed store has, for every option it was not given, the default.
C13_DefaultsImmutable ==
    /\ defaultOptions = InitialDefaultOptions
    /\ \A s \in Stores :
          Constructed(s) =>
             \A k \in OptionKeys \ stores[s].options.has :
                OptionsOf(s)[k] = InitialDefaultOptions[k]

ConfiguredOptions(s) == ObjectAssign(InitialDefaultOptions, stores[s].options)

\* C15: when a set, or a touch on a store with touch enabled, has succeeded,
\* the row of its sid has the expires its payload names, or else the time of
\* the call plus the expiration the store is configured with (no other
\* caller having written to the sid during the set).
C15_ExpiresIsExpiration ==
    [][\A p \in Procs :
          LET c == calls[p]
              expected == expiration(c.data, ConfiguredOptions(c.store), c.at).t
          IN
          /\ ( /\ c.op = "set" /\ Completes(p) /\ last'.result.kind = "ok"
               /\ ~c.disturbed /\ ~c.retimed )
                => \A r \in RowsOf(table', c.sid) : r.expires = expected
          /\ (c.pc = "touch_update" /\ Completes(p) /\ last'.result.kind = "ok")
                => \A r \in RowsOf(table', c.sid) : r.expires = expected ]_vars

\* C16: a set whose INSERT the unique key refuses goes on to find the row
\* again, and from the row it finds to the UPDATE; a set ends with an error
\* only when the database failed, or when the row it lost the race to was
\* deleted before it found it again.
C16_ConflictTolerated ==
    [][\A p \in Procs :
          LET c == calls[p]
              rows == RowsOf(table, c.sid)
          IN
          /\ (c.pc = "set_create" /\ calls'[p].pc # "set_create" /\ rows # {})
                => \/ calls'[p].pc = "set_findAgain" /\ table' = table
                   \/ last'.result.err = "StorageError"
          /\ (c.pc = "set_findAgain" /\ calls'[p].pc # "set_findAgain" /\ rows # {})
                => \/ calls'[p].pc = "set_save"
                   \/ last'.result.err = "StorageError"
          /\ (c.op = "set" /\ Completes(p) /\ last'.result.kind # "ok")
                => \/ last'.result.err = "StorageError"
                   \/ c.pc = "set_findAgain" /\ rows = {} ]_vars

\* the set that won the race has completed; the one that lost it had its
\* INSERT refused and is about to find the winner's row
C16_Witness ==
    \E p, q \in Procs :
        /\ calls[p].pc = "set_findAgain"
        /\ calls[q].pc = "idle"
        /\ last.op = "set" /\ last.result.kind = "ok"
        /\ budget = MaxCalls - 2
        /\ RowsOf(table, calls[p].sid) # {}

Expired(r) == r.expires < now

\* C17: with a sweep timer running, a sid that has an expired row comes to
\* have none (the row is deleted, or a touch has moved its expires ahead);
\* and length() answers the number of rows in the table, the expired ones
\* not yet swept among them.
C17_ExpiredRowSwept ==
    /\ \A x \in Sids :
          (timers # {} /\ \E r \in RowsOf(table, x) : Expired(r))
             ~> (\A r \in RowsOf(table, x) : ~Expired(r))
    /\ [][\A p \in Procs :
             (calls[p].pc = "length_count" /\ Completes(p) /\ last'.result.kind = "ok")
                => last'.result.n = Cardinality(table)]_vars

\* the sweep has deleted the expired row and length() answered 0
C17_Witness ==
    /\ last.op = "length"
    /\ last.result.kind = "ok"
    /\ last.result.n = 0
    /\ timers # {}
    /\ table = {}

\* the store was constructed from an options object that sets
\* checkExpirationInterval to zero or less
ConfiguredNoSweeper(s) ==
    /\ Constructed(s)
    /\ "checkExpirationInterval" \in stores[s].options.has
    /\ stores[s].options.val.checkExpirationInterval <= 0

\* C18: a store constructed with checkExpirationInterval <= 0 never has a
\* sweep timer, after its construction and after each startExpiringSessions,
\* and no sweep of such a store's timer ever runs.
C18_NoSweeperWhenDisabled ==
    [][ /\ \A s \in Stores :
              ConfiguredNoSweeper(s)' =>
                 /\ stores'[s].expirationInterval = NoTimer
                 /\ \A t \in timers' : t.store # s
        /\ (TimerSweepStep /\ last' # last) => ~ConfiguredNoSweeper(last'.store) ]_vars

\* C19: when a set has succeeded and no destroy of another caller deleted
\* the row of its sid while it ran, the table holds a row for the sid.
C19_SetLeavesRow ==
    [][\A p \in Procs :
          LET c == calls[p] IN
          ( /\ c.op = "set" /\ Completes(p) /\ last'.result.kind = "ok"
            /\ ~c.destroyed )
          => RowsOf(table', c.sid) # {} ]_vars

\* C20: a get the database answers, on a sid whose row decodes, returns the
\* payload stored in the row whether or not the row has expired, and no step
\* of a get changes the table.
C20_GetIgnoresExpires ==
    [][\A p \in Procs :
          LET c == calls[p] IN
          (c.pc = "get_findOne" /\ Completes(p))
          => /\ table' = table
             /\ \A r \in RowsOf(table, c.sid) :
                   (~Undecodable(r) /\ last'.result.err # "StorageError")
                   => /\ last'.result.kind = "ok"
                      /\ last'.result.found
                      /\ last'.result.payload
                           = JSONparse(AESdecrypt(r.data, secretKey).text) ]_vars

\* a get returned the payload of a row that has expired and is still there
C20_Witness ==
    /\ last.op = "get"
    /\ last.result.found
    /\ \E r \in table :
          /\ table = {r}
          /\ Expired(r)
          /\ last.result.payload = JSONparse(r.data.text)

====
